---- MODULE Spec2Model ----
(***************************************************************************)
(* The log-structured key-value engine of src/src/kvstore.rs: generation   *)
(* files in a directory, the in-memory index, the lock-protected writer    *)
(* with its compaction, the lock-free reader, and recovery on open; the    *)
(* shared-queue thread pool of src/src/thread_pool.rs; and the server of   *)
(* src/src/bin/kvs-server.rs.                                              *)
(***************************************************************************)
EXTENDS Integers, Sequences, FiniteSets, TLC

\* ------------------------------------------------------------------ bounds
NumKeys == 2
NumValues == 2
NumThreads == 2
\* Largest generation number a file may get; calls that could need a
\* larger one are not started.
MaxGeneration == 5
\* Capacity of std::io::BufWriter (8192 in std), scaled with the records.
BufWriterCapacity == 40
\* Commands the writer file and the writer's buffer may hold when a
\* mutation starts.
MaxAppended == 2
\* I/O errors met in one run.
MaxFaults == 2
\* Workers a SharedQueueThreadPool is constructed with.
NumWorkers == 2
\* Jobs passed to spawn in one run of the pool.
MaxJobs == 3
\* Connections clients make to the server, and messages sent on each.
NumConns == 2
MaxRequests == 2
\* Times the server is started in the directory.
MaxStarts == 3

\* src/src/kvstore.rs:18, 4 MiB there; scaled so that two records reach it.
COMPACTION_THRESHOLD == 50

Keys == 1..NumKeys
Values == 1..NumValues
Threads == 1..NumThreads

\* Mutant of LockFree: lock() that does not wait for the holder.
LockFreeNoWait(l) == TRUE

\* The writer mutex: 0 when free, the holding thread, or negative once a
\* thread panicked while holding it.
LockFree(l) == l = 0
IsPoisoned(l) == l < 0

\* ----------------------------------------------------------- record codec
\* enum Command: a key is one byte long, value v is v bytes long.
SetCommand(k, v) == [type |-> "Set", key |-> k, value |-> v]
RemoveCommand(k) == [type |-> "Remove", key |-> k, value |-> 0]

KeyLen(k) == 1
ValueLen(v) == v

\* serde_json::to_writer: {"Set":{"key":"..","value":".."}} is 29 bytes
\* plus key and value, {"Remove":{"key":".."}} is 21 bytes plus key.
SerializedLen(c) ==
    IF c.type = "Set" THEN 29 + KeyLen(c.key) + ValueLen(c.value)
    ELSE 21 + KeyLen(c.key)

\* Number of bytes of a sequence of serialized commands.
RECURSIVE BytesLen(_)
BytesLen(s) ==
    IF s = <<>> THEN 0 ELSE SerializedLen(Head(s)) + BytesLen(Tail(s))

\* seek(Start(o)) followed by one StreamDeserializer::next() on the flushed
\* bytes s of a file: the command starting at o, end of input, or a syntax
\* error when o falls inside a command.
RECURSIVE DecodeAt(_, _)
DecodeAt(s, o) ==
    IF s = <<>> THEN [kind |-> "Eof", command |-> RemoveCommand(0)]
    ELSE IF o = 0 THEN [kind |-> "Command", command |-> Head(s)]
    ELSE IF o < SerializedLen(Head(s))
         THEN [kind |-> "Syntax", command |-> RemoveCommand(0)]
    ELSE DecodeAt(Tail(s), o - SerializedLen(Head(s)))

\* ------------------------------------------------------------- results
ResOk == [kind |-> "Ok", value |-> 0]
ResNone == [kind |-> "None", value |-> 0]
ResSome(v) == [kind |-> "Some", value |-> v]
ErrKeyNotFound == [kind |-> "KeyNotFound", value |-> 0]
ErrStdIo == [kind |-> "StdIo", value |-> 0]
ErrSerdeJson == [kind |-> "SerdeJson", value |-> 0]
Panic == [kind |-> "Panic", value |-> 0]

\* A reference map holds 0 for an absent key.
ValueResult(x) == IF x = 0 THEN ResNone ELSE ResSome(x)

\* ------------------------------------------------------------------ state
VARIABLES
    dir,           \* generation -> flushed commands of <generation>.json
    kv,            \* the index: key -> CommandOffset, for the keys present
    w,             \* KvStoreWriter: writer (buffered commands),
                   \* writer_offset, uncompaction_size
    cmp,           \* locals of a running compaction(), and what it found
                   \* when it began: the files, the generations the index
                   \* entries were in, and what get returned for each key
    opened,        \* an engine is open on the directory
    lock,          \* Mutex<KvStoreWriter>: 0, the holder, or -1 (poisoned)
    pc,            \* per thread: position in its current call
    op,            \* per thread: the current call
    cmdOff,        \* per thread: command_offset read by get
    seen,          \* per thread: values a running get may return
    ret,           \* the call the last step returned from, with its result
    acked,         \* key -> value of the last acknowledged mutation
    sess,          \* key -> value, for the engine that is open now
    inflight,      \* the mutation a crash interrupted
    afterCrash,    \* the engine open now was opened after a crash
    nCompactions,  \* compactions completed by the open engine
    faults,        \* I/O errors the writer has met
    sender,        \* SharedQueueThreadPool.sender exists (pool not dropped)
    queue,         \* the channel: jobs sent and not yet received
    jobs,          \* per job passed to spawn, what its closure does
    workers,       \* per thread running run_job: its position and job
    taken,         \* jobs in the order they were received
    begun,         \* jobs in the order their closures were called
    engineFile,    \* content of the file `engine`, "" while it does not exist
    srv,           \* the server process: position in main, listener, engine
    conns,         \* per connection: its state, the client's end, the
                   \* messages sent, how many the server read, the responses
    store,         \* per engine, the key-value mapping its files hold
    served         \* engines that were opened in the directory

engineVars == <<dir, kv, w, cmp, opened, lock, pc, op, cmdOff, seen, ret,
                acked, sess, inflight, afterCrash, nCompactions, faults>>
poolVars == <<sender, queue, jobs, workers, taken, begun>>
serverVars == <<engineFile, srv, conns, store, served>>

vars == <<engineVars, poolVars, serverVars>>

CommandOffset(g, o) == [generation |-> g, offset |-> o]

NoOp == [kind |-> "none", key |-> 0, value |-> 0]
NoCompaction ==
    [compaction_generation |-> 0, compaction_offset |-> 0,
     compaction_writer |-> <<>>, to_delete_generations |-> {}, cursor |-> 0,
     files |-> {}, sources |-> {}, mapping |-> <<>>]
NoRet == [thread |-> 0, call |-> NoOp, result |-> ResOk,
          allowed |-> {}]
NoMap == [k \in Keys |-> 0]

\* convert_command_generation_path + File::options().create(true)
\* .append(true).open(): an existing file keeps its bytes.
CreateCommandFile(d, g) ==
    IF g \in DOMAIN d THEN d ELSE d @@ (g :> <<>>)

\* KvStoreWriter::new
NewWriter(g, unc) ==
    [writer |-> <<>>, writer_offset |-> CommandOffset(g, 0),
     uncompaction_size |-> unc]

\* BufWriter::write_all of one serialized command c, the buffer holding buf
\* and the file holding file: the buffer is flushed first when c does not
\* fit, and c bypasses the buffer when it is as large as the capacity.
BufWriterWriteAll(buf, file, c) ==
    LET spare == BufWriterCapacity - BytesLen(buf)
        n == SerializedLen(c)
        file1 == IF n > spare THEN file \o buf ELSE file
        buf1 == IF n > spare THEN <<>> ELSE buf
    IN  IF n < spare THEN [buf |-> Append(buf, c), file |-> file]
        ELSE IF n >= BufWriterCapacity
             THEN [buf |-> buf1, file |-> Append(file1, c)]
        ELSE [buf |-> Append(buf1, c), file |-> file1]

\* KvStoreReader::get
ReaderGet(d, co) ==
    IF co.generation \notin DOMAIN d THEN ErrStdIo
    ELSE LET r == DecodeAt(d[co.generation], co.offset)
         IN  IF r.kind = "Syntax" THEN ErrSerdeJson
             ELSE IF r.kind = "Eof" THEN Panic
             ELSE IF r.command.type = "Set" THEN ResSome(r.command.value)
             ELSE Panic

\* KvStore::get run without interruption on index m and directory d.
EngineGet(m, d, k) ==
    IF k \notin DOMAIN m THEN ResNone ELSE ReaderGet(d, m[k])

\* SkipMap::insert, SkipMap::remove, SkipMap::contains_key
KvInsert(m, k, co) == [x \in DOMAIN m \cup {k} |-> IF x = k THEN co ELSE m[x]]
KvRemove(m, k) == [x \in DOMAIN m \ {k} |-> m[x]]
\* Mutant of ContainsKey: remove() without its test of the index.
ContainsKeyAlways(m, k) == TRUE

ContainsKey(m, k) == k \in DOMAIN m

\* The value a mutation leaves for its key in a reference map.
NewValue(o) == IF o.kind = "set" THEN o.value ELSE 0

EngineInit ==
    /\ dir = (0 :> <<>>)
    /\ kv = <<>>
    /\ w = NewWriter(0, 0)
    /\ cmp = NoCompaction
    /\ opened = TRUE
    /\ lock = 0
    /\ pc = [t \in Threads |-> "idle"]
    /\ op = [t \in Threads |-> NoOp]
    /\ cmdOff = [t \in Threads |-> CommandOffset(0, 0)]
    /\ seen = [t \in Threads |-> {}]
    /\ ret = NoRet
    /\ acked = NoMap
    /\ sess = NoMap
    /\ inflight = NoOp
    /\ afterCrash = FALSE
    /\ nCompactions = 0
    /\ faults = 0

\* --------------------------------------------------------- call and return
\* A call of thread t returns r; allowed is what a get may have returned.
Returns(t, r, allowed) ==
    ret' = [thread |-> t, call |-> op[t], result |-> r, allowed |-> allowed]

\* A call that started while get of key k was running may be seen by it.
NoteMutation(k, x) ==
    seen' = [u \in Threads |->
                IF pc[u] = "get_read" /\ op[u].key = k
                THEN seen[u] \cup {x} ELSE seen[u]]

\* The bounds on generations and on the writer file: a mutation starts
\* only if the compaction it may run finds its two generations within
\* MaxGeneration, and only while the writer file and the writer's buffer
\* hold at most MaxAppended commands (compactions that end keep them
\* below the threshold).
CanStart(call) ==
    /\ \/ w.writer_offset.generation + 2 <= MaxGeneration
       \/ w.uncompaction_size
            + SerializedLen(IF call.kind = "set"
                            THEN SetCommand(call.key, call.value)
                            ELSE RemoveCommand(call.key))
                < COMPACTION_THRESHOLD
    /\ w.writer_offset.generation \in DOMAIN dir
          => Len(dir[w.writer_offset.generation]) + Len(w.writer)
                <= MaxAppended

\* self.writer.lock().unwrap() of KvStore::set and KvStore::remove: the
\* thread waits for the mutex, and panics when the mutex is poisoned.
WriterLock(t, call, next) ==
    /\ opened
    /\ pc[t] = "idle"
    /\ CanStart(call)
    /\ IF IsPoisoned(lock)
       THEN /\ ret' = [thread |-> t, call |-> call, result |-> Panic,
                       allowed |-> {}]
            /\ UNCHANGED <<lock, pc, op, seen>>
       ELSE /\ LockFree(lock)
            /\ lock' = t
            /\ pc' = [pc EXCEPT ![t] = next]
            /\ op' = [op EXCEPT ![t] = call]
            /\ NoteMutation(call.key, NewValue(call))
            /\ ret' = NoRet
    /\ UNCHANGED <<dir, kv, w, cmp, opened, cmdOff, acked, sess, inflight,
                   afterCrash, nCompactions>>
    /\ UNCHANGED <<faults, poolVars, serverVars>>

\* The MutexGuard is dropped when set or remove returns Ok(()).
Return(t) ==
    /\ pc[t] = "return"
    /\ lock' = 0
    /\ pc' = [pc EXCEPT ![t] = "idle"]
    /\ op' = [op EXCEPT ![t] = NoOp]
    /\ Returns(t, ResOk, {})
    /\ acked' = [acked EXCEPT ![op[t].key] = NewValue(op[t])]
    /\ sess' = [sess EXCEPT ![op[t].key] = NewValue(op[t])]
    /\ UNCHANGED <<dir, kv, w, cmp, opened, cmdOff, seen, inflight,
                   afterCrash, nCompactions>>
    /\ UNCHANGED <<faults, poolVars, serverVars>>

\* set or remove returns Err(e) from inside the writer (the ? operator).
ReturnsErr(t, e) ==
    /\ lock' = 0
    /\ pc' = [pc EXCEPT ![t] = "idle"]
    /\ op' = [op EXCEPT ![t] = NoOp]
    /\ Returns(t, e, {})

\* The thread panics inside the writer: the mutex is poisoned.
Panics(t) ==
    /\ lock' = 0 - 1
    /\ pc' = [pc EXCEPT ![t] = "idle"]
    /\ op' = [op EXCEPT ![t] = NoOp]
    /\ Returns(t, Panic, {})

\* Mutant of AfterAppend: compaction is never run.
AfterAppendNever(unc) == "return"

\* if self.uncompaction_size >= COMPACTION_THRESHOLD { self.compaction()? }
AfterAppend(unc) ==
    IF unc >= COMPACTION_THRESHOLD THEN "compaction" ELSE "return"

\* --------------------------------------------------------- KvStoreWriter::set
SetLock(t, k, v) ==
    WriterLock(t, [kind |-> "set", key |-> k, value |-> v], "set_write")

\* self.writer.write_all(&json)?
SetWrite(t) ==
    /\ pc[t] = "set_write"
    /\ LET g == w.writer_offset.generation
           r == BufWriterWriteAll(w.writer, dir[g],
                                  SetCommand(op[t].key, op[t].value))
       IN  /\ dir' = [dir EXCEPT ![g] = r.file]
           /\ w' = [w EXCEPT !.writer = r.buf]
    /\ pc' = [pc EXCEPT ![t] = "set_flush"]
    /\ ret' = NoRet
    /\ UNCHANGED <<kv, cmp, opened, lock, op, cmdOff, seen, acked, sess,
                   inflight, afterCrash, nCompactions>>
    /\ UNCHANGED <<faults, poolVars, serverVars>>

\* self.writer.flush()?, also of remove
WriterFlush(t, at, next) ==
    /\ pc[t] = at
    /\ dir' = [dir EXCEPT ![w.writer_offset.generation] = @ \o w.writer]
    /\ w' = [w EXCEPT !.writer = <<>>]
    /\ pc' = [pc EXCEPT ![t] = next]
    /\ ret' = NoRet
    /\ UNCHANGED <<kv, cmp, opened, lock, op, cmdOff, seen, acked, sess,
                   inflight, afterCrash, nCompactions>>
    /\ UNCHANGED <<faults, poolVars, serverVars>>

SetFlush(t) == WriterFlush(t, "set_flush", "set_insert")

\* Mutant of SetEntry: the offset is advanced before the insert.
SetEntryAdvanced(wo, len) == [wo EXCEPT !.offset = @ + len]

\* The index entry set() inserts: writer_offset before it is advanced.
SetEntry(wo, len) == wo

\* self.kv.insert(key, self.writer_offset); self.writer_offset.offset += len;
\* self.uncompaction_size += len; then the threshold test.
SetInsert(t) ==
    /\ pc[t] = "set_insert"
    /\ LET len == SerializedLen(SetCommand(op[t].key, op[t].value))
       IN  /\ kv' = KvInsert(kv, op[t].key, SetEntry(w.writer_offset, len))
           /\ w' = [w EXCEPT !.writer_offset.offset = @ + len,
                             !.uncompaction_size = @ + len]
           /\ pc' = [pc EXCEPT ![t] = AfterAppend(w.uncompaction_size + len)]
    /\ ret' = NoRet
    /\ UNCHANGED <<dir, cmp, opened, lock, op, cmdOff, seen, acked, sess,
                   inflight, afterCrash, nCompactions>>
    /\ UNCHANGED <<faults, poolVars, serverVars>>

\* ------------------------------------------------------ KvStoreWriter::remove
RemoveLock(t, k) ==
    WriterLock(t, [kind |-> "remove", key |-> k, value |-> 0], "remove_check")

\* if !self.kv.contains_key(&key) { return Err(KvsError::KeyNotFound); }
RemoveCheck(t) ==
    /\ pc[t] = "remove_check"
    /\ IF ContainsKey(kv, op[t].key)
       THEN /\ pc' = [pc EXCEPT ![t] = "remove_write"]
            /\ ret' = NoRet
            /\ UNCHANGED <<lock, op>>
       ELSE ReturnsErr(t, ErrKeyNotFound)
    /\ UNCHANGED <<dir, kv, w, cmp, opened, cmdOff, seen, acked, sess,
                   inflight, afterCrash, nCompactions>>
    /\ UNCHANGED <<faults, poolVars, serverVars>>

\* self.writer.write_all(&json)?; self.writer_offset.offset += len;
RemoveWrite(t) ==
    /\ pc[t] = "remove_write"
    /\ LET g == w.writer_offset.generation
           c == RemoveCommand(op[t].key)
           r == BufWriterWriteAll(w.writer, dir[g], c)
       IN  /\ dir' = [dir EXCEPT ![g] = r.file]
           /\ w' = [w EXCEPT !.writer = r.buf,
                             !.writer_offset.offset = @ + SerializedLen(c)]
    /\ pc' = [pc EXCEPT ![t] = "remove_flush"]
    /\ ret' = NoRet
    /\ UNCHANGED <<kv, cmp, opened, lock, op, cmdOff, seen, acked, sess,
                   inflight, afterCrash, nCompactions>>
    /\ UNCHANGED <<faults, poolVars, serverVars>>

RemoveFlush(t) == WriterFlush(t, "remove_flush", "remove_erase")

\* self.kv.remove(&key); self.uncompaction_size += len; the threshold test.
RemoveErase(t) ==
    /\ pc[t] = "remove_erase"
    /\ LET len == SerializedLen(RemoveCommand(op[t].key))
       IN  /\ kv' = KvRemove(kv, op[t].key)
           /\ w' = [w EXCEPT !.uncompaction_size = @ + len]
           /\ pc' = [pc EXCEPT ![t] = AfterAppend(w.uncompaction_size + len)]
    /\ ret' = NoRet
    /\ UNCHANGED <<dir, cmp, opened, lock, op, cmdOff, seen, acked, sess,
                   inflight, afterCrash, nCompactions>>
    /\ UNCHANGED <<faults, poolVars, serverVars>>

\* --------------------------------------------------- KvStoreWriter::compaction
\* Lines 155-164: the compacted generation and its file.
CompactionBegin(t) ==
    /\ pc[t] = "compaction"
    /\ LET gc == w.writer_offset.generation + 1
       IN  /\ dir' = CreateCommandFile(dir, gc)
           /\ cmp' = [compaction_generation |-> gc, compaction_offset |-> 0,
                      compaction_writer |-> <<>>,
                      to_delete_generations |-> {}, cursor |-> 0,
                      files |-> DOMAIN dir,
                      sources |-> {kv[k].generation : k \in DOMAIN kv},
                      mapping |-> [k \in Keys |-> EngineGet(kv, dir, k)]]
    /\ pc' = [pc EXCEPT ![t] = "compaction_iter"]
    /\ ret' = NoRet
    /\ UNCHANGED <<kv, w, opened, lock, op, cmdOff, seen, acked, sess,
                   inflight, afterCrash, nCompactions>>
    /\ UNCHANGED <<faults, poolVars, serverVars>>

\* self.kv.iter(): the keys of the ordered map after the one visited last.
KeysAfter(m, cursor) == {k \in DOMAIN m : k > cursor}
NextKey(m, cursor) ==
    CHOOSE k \in KeysAfter(m, cursor) : \A x \in KeysAfter(m, cursor) : k <= x

\* Mutant of CompactionRepoint: the entry keeps its old location.
CompactionNoRepoint(m, k, co) == m

\* self.kv.insert(key, compaction_offset) of the loop body.
CompactionRepoint(m, k, co) == KvInsert(m, k, co)

\* Command::Set { key: pair.key().clone(), value }
CompactedCommand(k, value) == SetCommand(k, value)

\* to_delete_generations.insert(command_offset.generation)
InsertGeneration(gens, g) == gens \cup {g}

\* drop(compaction_writer) on an early return: BufWriter's drop flushes.
DropCompactionWriter ==
    /\ dir' = [dir EXCEPT ![cmp.compaction_generation] =
                              @ \o cmp.compaction_writer]
    /\ cmp' = NoCompaction

\* One pass of the loop of lines 166-188.
CompactionIter(t) ==
    /\ pc[t] = "compaction_iter"
    /\ KeysAfter(kv, cmp.cursor) # {}
    /\ LET k == NextKey(kv, cmp.cursor)
           command_offset == kv[k]
           gc == cmp.compaction_generation
           r == ReaderGet(dir, command_offset)
           c == CompactedCommand(k, r.value)
           wr == BufWriterWriteAll(cmp.compaction_writer, dir[gc], c)
       IN  IF r.kind = "Some"
           THEN /\ dir' = [dir EXCEPT ![gc] = wr.file]
                /\ kv' = CompactionRepoint(kv, k,
                             CommandOffset(gc, cmp.compaction_offset))
                /\ cmp' = [cmp EXCEPT
                       !.to_delete_generations =
                           InsertGeneration(@, command_offset.generation),
                       !.compaction_writer = wr.buf,
                       !.compaction_offset = @ + SerializedLen(c),
                       !.cursor = k]
                /\ ret' = NoRet
            /\ UNCHANGED <<lock, pc, op>>
           ELSE /\ IF r.kind = "Panic" THEN Panics(t) ELSE ReturnsErr(t, r)
                /\ DropCompactionWriter
                /\ UNCHANGED kv
    /\ UNCHANGED <<w, opened, cmdOff, seen, acked, sess, inflight,
                   afterCrash, nCompactions>>
    /\ UNCHANGED <<faults, poolVars, serverVars>>

\* compaction_writer.flush()? after the loop.
CompactionFlush(t) ==
    /\ pc[t] = "compaction_iter"
    /\ KeysAfter(kv, cmp.cursor) = {}
    /\ dir' = [dir EXCEPT ![cmp.compaction_generation] =
                              @ \o cmp.compaction_writer]
    /\ cmp' = [cmp EXCEPT !.compaction_writer = <<>>]
    /\ pc' = [pc EXCEPT ![t] = "compaction_delete"]
    /\ ret' = NoRet
    /\ UNCHANGED <<kv, w, opened, lock, op, cmdOff, seen, acked, sess,
                   inflight, afterCrash, nCompactions>>
    /\ UNCHANGED <<faults, poolVars, serverVars>>

\* fs::remove_file of one generation of to_delete_generations (a HashSet:
\* any order).
CompactionDelete(t, g) ==
    /\ pc[t] = "compaction_delete"
    /\ g \in cmp.to_delete_generations
    /\ IF g \in DOMAIN dir
       THEN /\ dir' = [x \in DOMAIN dir \ {g} |-> dir[x]]
            /\ cmp' = [cmp EXCEPT !.to_delete_generations = @ \ {g}]
            /\ ret' = NoRet
            /\ UNCHANGED <<lock, pc, op>>
       ELSE /\ ReturnsErr(t, ErrStdIo)
            /\ cmp' = NoCompaction
            /\ UNCHANGED dir
    /\ UNCHANGED <<kv, w, opened, cmdOff, seen, acked, sess, inflight,
                   afterCrash, nCompactions>>
    /\ UNCHANGED <<faults, poolVars, serverVars>>

\* Lines 199-206: the new writer file replaces the writer, whose drop
\* flushes what its buffer holds.
CompactionSwap(t) ==
    /\ pc[t] = "compaction_delete"
    /\ cmp.to_delete_generations = {}
    /\ LET g == cmp.compaction_generation + 1
           old == w.writer_offset.generation
           d == CreateCommandFile(dir, g)
       IN  /\ dir' = IF old \in DOMAIN d
                     THEN [d EXCEPT ![old] = @ \o w.writer] ELSE d
           /\ w' = NewWriter(g, 0)
    /\ cmp' = NoCompaction
    /\ pc' = [pc EXCEPT ![t] = "return"]
    /\ nCompactions' = nCompactions + 1
    /\ ret' = NoRet
    /\ UNCHANGED <<kv, opened, lock, op, cmdOff, seen, acked, sess,
                   inflight, afterCrash>>
    /\ UNCHANGED <<faults, poolVars, serverVars>>

\* ------------------------------------------------ I/O errors in the writer
\* self.writer.write_all(&json)? returns Err: write_all has to empty the
\* buffer first and the write to the file fails. Nothing is appended and
\* no field of the writer changes.
WriteAllFails(t) ==
    /\ pc[t] \in {"set_write", "remove_write"}
    /\ LET c == IF pc[t] = "set_write"
                THEN SetCommand(op[t].key, op[t].value)
                ELSE RemoveCommand(op[t].key)
       IN  SerializedLen(c) > BufWriterCapacity - BytesLen(w.writer)
    /\ ReturnsErr(t, ErrStdIo)
    /\ UNCHANGED <<dir, kv, w, cmp, opened, cmdOff, seen, acked, sess,
                   inflight, afterCrash, nCompactions>>
    /\ faults < MaxFaults
    /\ faults' = faults + 1
    /\ UNCHANGED <<poolVars, serverVars>>

\* self.writer.flush()? returns Err: the write to the file fails and the
\* BufWriter keeps the bytes it holds.
FlushFails(t) ==
    /\ pc[t] \in {"set_flush", "remove_flush"}
    /\ w.writer # <<>>
    /\ ReturnsErr(t, ErrStdIo)
    /\ UNCHANGED <<dir, kv, w, cmp, opened, cmdOff, seen, acked, sess,
                   inflight, afterCrash, nCompactions>>
    /\ faults < MaxFaults
    /\ faults' = faults + 1
    /\ UNCHANGED <<poolVars, serverVars>>

\* compaction returns Err from inside or right after its loop:
\* compaction_reader.get(command_offset)? cannot open the file, or
\* compaction_writer.write_all(&json)? or compaction_writer.flush()? fails
\* once. No file is deleted and self.writer is not replaced.
CompactionFails(t) ==
    /\ pc[t] = "compaction_iter"
    /\ ReturnsErr(t, ErrStdIo)
    /\ DropCompactionWriter
    /\ UNCHANGED <<kv, w, opened, cmdOff, seen, acked, sess, inflight,
                   afterCrash, nCompactions>>
    /\ faults < MaxFaults
    /\ faults' = faults + 1
    /\ UNCHANGED <<poolVars, serverVars>>

\* ------------------------------------------------------------- KvStore::get
\* What a get of k that starts now may return: the acknowledged value or
\* the value of the mutation of k that is running.
Visible(k) ==
    {acked[k]} \cup
    (IF lock \in Threads /\ op[lock].key = k
     THEN {NewValue(op[lock])} ELSE {})

\* self.kv.get(&key): None returns at once.
GetLookup(t, k) ==
    /\ opened
    /\ pc[t] = "idle"
    /\ IF k \in DOMAIN kv
       THEN /\ cmdOff' = [cmdOff EXCEPT ![t] = kv[k]]
            /\ pc' = [pc EXCEPT ![t] = "get_read"]
            /\ op' = [op EXCEPT ![t] = [kind |-> "get", key |-> k,
                                        value |-> 0]]
            /\ seen' = [seen EXCEPT ![t] = Visible(k)]
            /\ ret' = NoRet
       ELSE /\ ret' = [thread |-> t,
                       call |-> [kind |-> "get", key |-> k, value |-> 0],
                       result |-> ResNone,
                       allowed |-> {ValueResult(x) : x \in Visible(k)}]
            /\ UNCHANGED <<cmdOff, pc, op, seen>>
    /\ UNCHANGED <<dir, kv, w, cmp, opened, lock, acked, sess, inflight,
                   afterCrash, nCompactions>>
    /\ UNCHANGED <<faults, poolVars, serverVars>>

\* self.reader.get(command_offset)
GetRead(t) ==
    /\ pc[t] = "get_read"
    /\ Returns(t, ReaderGet(dir, cmdOff[t]),
               {ValueResult(x) : x \in seen[t]})
    /\ pc' = [pc EXCEPT ![t] = "idle"]
    /\ op' = [op EXCEPT ![t] = NoOp]
    /\ cmdOff' = [cmdOff EXCEPT ![t] = CommandOffset(0, 0)]
    /\ seen' = [seen EXCEPT ![t] = {}]
    /\ UNCHANGED <<dir, kv, w, cmp, opened, lock, acked, sess, inflight,
                   afterCrash, nCompactions>>
    /\ UNCHANGED <<faults, poolVars, serverVars>>

\* ------------------------------------------------------------ KvStore::open
\* The while loop of load_command_file over the commands s that follow
\* offset o of generation g.
RECURSIVE LoadCommands(_, _, _, _)
LoadCommands(m, g, s, o) ==
    IF s = <<>> THEN [kv |-> m, offset |-> o]
    ELSE LET c == Head(s)
             m1 == IF c.type = "Set"
                   THEN KvInsert(m, c.key, CommandOffset(g, o))
                   ELSE KvRemove(m, c.key)
         IN  LoadCommands(m1, g, Tail(s), o + SerializedLen(c))

\* Mutant of MinGeneration: the generations are replayed newest first.
MinGenerationNewest(gens) == CHOOSE g \in gens : \A x \in gens : g >= x

\* get_generations: the generations of the directory, sorted.
MinGeneration(gens) == CHOOSE g \in gens : \A x \in gens : g <= x
MaxOf(gens) == CHOOSE g \in gens : \A x \in gens : g >= x

\* for generation in generations { load_command_file(..)? }
RECURSIVE LoadGenerations(_, _, _, _)
LoadGenerations(d, gens, m, unc) ==
    IF gens = {} THEN [kv |-> m, uncompaction_size |-> unc]
    ELSE LET g == MinGeneration(gens)
             r == LoadCommands(m, g, d[g], 0)
         IN  LoadGenerations(d, gens \ {g}, r.kv, unc + r.offset)

\* generations.iter().max().map_or(0, |x| x + 1)
WriterGeneration(gens) == IF gens = {} THEN 0 ELSE MaxOf(gens) + 1

\* The value EngineGet finds, 0 when it finds none.
Found(m, d, k) ==
    LET r == EngineGet(m, d, k) IN IF r.kind = "Some" THEN r.value ELSE 0

Open ==
    /\ ~opened
    /\ WriterGeneration(DOMAIN dir) <= MaxGeneration
    /\ LET g == WriterGeneration(DOMAIN dir)
           r == LoadGenerations(dir, DOMAIN dir, <<>>, 0)
           d == CreateCommandFile(dir, g)
       IN  /\ dir' = d
           /\ kv' = r.kv
           /\ w' = NewWriter(g, r.uncompaction_size)
           /\ sess' = [k \in Keys |-> Found(r.kv, d, k)]
           /\ acked' = [k \in Keys |->
                  IF inflight.key = k
                     /\ Found(r.kv, d, k) = NewValue(inflight)
                  THEN NewValue(inflight) ELSE acked[k]]
    /\ opened' = TRUE
    /\ inflight' = NoOp
    /\ nCompactions' = 0
    /\ ret' = NoRet
    /\ UNCHANGED <<cmp, lock, pc, op, cmdOff, seen, afterCrash>>
    /\ UNCHANGED <<faults, poolVars, serverVars>>

\* Every clone of the engine is dropped: the writer's BufWriter is flushed.
Close ==
    /\ opened
    /\ \A t \in Threads : pc[t] = "idle"
    /\ opened' = FALSE
    /\ dir' = IF w.writer_offset.generation \in DOMAIN dir
              THEN [dir EXCEPT ![w.writer_offset.generation] = @ \o w.writer]
              ELSE dir
    /\ kv' = <<>>
    /\ w' = NewWriter(0, 0)
    /\ lock' = 0
    /\ ret' = NoRet
    /\ afterCrash' = FALSE
    /\ sess' = NoMap
    /\ nCompactions' = 0
    /\ UNCHANGED <<cmp, pc, op, cmdOff, seen, acked, inflight>>
    /\ UNCHANGED <<faults, poolVars, serverVars>>

\* The process dies: what the buffers hold is lost, the files stay.
Crash ==
    /\ opened
    /\ opened' = FALSE
    /\ inflight' = IF lock \in Threads THEN op[lock] ELSE NoOp
    /\ afterCrash' = TRUE
    /\ kv' = <<>>
    /\ w' = NewWriter(0, 0)
    /\ cmp' = NoCompaction
    /\ lock' = 0
    /\ pc' = [t \in Threads |-> "idle"]
    /\ op' = [t \in Threads |-> NoOp]
    /\ cmdOff' = [t \in Threads |-> CommandOffset(0, 0)]
    /\ seen' = [t \in Threads |-> {}]
    /\ ret' = NoRet
    /\ sess' = NoMap
    /\ nCompactions' = 0
    /\ UNCHANGED <<dir, acked>>
    /\ UNCHANGED <<faults, poolVars, serverVars>>

\* ------------------------------------------------- SharedQueueThreadPool
\* What a thread running run_job is doing.
Worker(st, j) == [state |-> st, job |-> j]

\* Position in run_job after job() returned: the for loop asks the
\* iterator again. Mutant of LoopAfterJob: the worker leaves the loop.
LoopAfterJobOnce == "returned"

LoopAfterJob == "next"

\* Mutant of ChannelRecv: the newest message is received first.
ChannelRecvNewest(q) == [job |-> q[Len(q)], rest |-> SubSeq(q, 1, Len(q) - 1)]

\* crossbeam unbounded channel, recv of a non-empty queue: the oldest
\* message.
ChannelRecv(q) == [job |-> Head(q), rest |-> Tail(q)]

\* Mutant of IterEnds: the iterator ends as soon as the sender is gone.
IterEndsOnDisconnect(q, s) == ~s

\* Receiver::iter().next() returns None: the channel is empty and every
\* sender is dropped.
IterEnds(q, s) == q = <<>> /\ ~s

\* Mutant of Replacement: every dropped QueueReceiver spawns a thread.
ReplacementAlways(st) == <<Worker("next", 0)>>

\* impl Drop for QueueReceiver: if thread::panicking(), a new thread runs
\* run_job on a clone of the receiver.
Replacement(st) == IF st = "panicking" THEN <<Worker("next", 0)>> ELSE <<>>

\* Every thread the pool can have: each panic of a job adds one.
WorkerIds == 1..(NumWorkers + MaxJobs)

\* Threads of the pool inside the loop of run_job.
Consuming == {i \in DOMAIN workers :
                workers[i].state \in {"next", "job", "running"}}
\* Threads of the pool that have not ended: each holds a Receiver.
Alive == {i \in DOMAIN workers : workers[i].state # "exited"}

\* SharedQueueThreadPool::new(NumWorkers): the channel, and NumWorkers
\* threads running run_job.
PoolInit ==
    /\ sender = TRUE
    /\ queue = <<>>
    /\ jobs = <<>>
    /\ workers = [i \in 1..NumWorkers |-> Worker("next", 0)]
    /\ taken = <<>>
    /\ begun = <<>>

\* SharedQueueThreadPool::spawn(job): send on the unbounded channel, which
\* fails (and expect panics, the job is dropped) only when no receiver is
\* left. The closure either returns or panics when it is called.
PoolSpawn(kind) ==
    /\ sender
    /\ Len(jobs) < MaxJobs
    /\ jobs' = Append(jobs, kind)
    /\ queue' = IF Alive = {} THEN queue ELSE Append(queue, Len(jobs) + 1)
    /\ UNCHANGED <<sender, workers, taken, begun, engineVars, serverVars>>

\* The SharedQueueThreadPool value is dropped: its Sender is dropped.
PoolDrop ==
    /\ sender
    /\ sender' = FALSE
    /\ UNCHANGED <<queue, jobs, workers, taken, begun, engineVars, serverVars>>

\* run_job: r.receiver.iter().next() returns a job, or None; it blocks
\* while the channel is empty and a sender exists.
RunJobNext(i) ==
    /\ i \in DOMAIN workers
    /\ workers[i].state = "next"
    /\ IF IterEnds(queue, sender)
       THEN /\ workers' = [workers EXCEPT ![i] = Worker("returned", 0)]
            /\ UNCHANGED <<queue, taken>>
       ELSE /\ queue # <<>>
            /\ workers' = [workers EXCEPT
                               ![i] = Worker("job", ChannelRecv(queue).job)]
            /\ queue' = ChannelRecv(queue).rest
            /\ taken' = Append(taken, ChannelRecv(queue).job)
    /\ UNCHANGED <<sender, jobs, begun, engineVars, serverVars>>

\* run_job: job()
RunJobCall(i) ==
    /\ i \in DOMAIN workers
    /\ workers[i].state = "job"
    /\ workers' = [workers EXCEPT ![i].state = "running"]
    /\ begun' = Append(begun, workers[i].job)
    /\ UNCHANGED <<sender, queue, jobs, taken, engineVars, serverVars>>

\* The closure returns, or it panics and the thread unwinds run_job.
RunJobEnd(i) ==
    /\ i \in DOMAIN workers
    /\ workers[i].state = "running"
    /\ workers' = [workers EXCEPT ![i] =
            IF jobs[workers[i].job] = "panic"
            THEN Worker("panicking", 0) ELSE Worker(LoopAfterJob, 0)]
    /\ UNCHANGED <<sender, queue, jobs, taken, begun, engineVars, serverVars>>

\* r goes out of scope, at the return of run_job or while unwinding:
\* Drop for QueueReceiver runs and the thread ends.
QueueReceiverDrop(i) ==
    /\ i \in DOMAIN workers
    /\ workers[i].state \in {"returned", "panicking"}
    /\ workers' = [workers EXCEPT ![i] = Worker("exited", 0)]
                    \o Replacement(workers[i].state)
    /\ UNCHANGED <<sender, queue, jobs, taken, begun, engineVars, serverVars>>

\* The steps of the thread i of the pool.
RunJob(i) ==
    \/ RunJobNext(i)
    \/ RunJobCall(i)
    \/ RunJobEnd(i)
    \/ QueueReceiverDrop(i)

\* ------------------------------------------------------------- kvs-server
\* enum Engine, as Display writes it.
Engines == {"kvs", "sled"}
Conns == 1..NumConns

\* enum Request, over one key and one value, and a message that is not
\* the JSON of a Request.
GetRequest == [type |-> "Get", key |-> 1, value |-> 0]
SetRequest == [type |-> "Set", key |-> 1, value |-> 1]
RmRequest == [type |-> "Rm", key |-> 1, value |-> 0]
Malformed == [type |-> "Malformed", key |-> 0, value |-> 0]
Requests == {GetRequest, SetRequest, RmRequest}
Messages == Requests \cup {Malformed}

\* struct Response: value 0 is null, error "" is null.
Response(v, e) == [value |-> v, error |-> e]

\* Mutant of ResponseOf: the error of the engine is left out.
ResponseOfNoError(r) ==
    Response(IF r.kind = "Some" THEN r.value ELSE 0, "")

\* process: the Response built from what the engine returned.
ResponseOf(r) ==
    IF r.kind \in {"Ok", "None"} THEN Response(0, "")
    ELSE IF r.kind = "Some" THEN Response(r.value, "")
    ELSE Response(0, r.kind)

\* trait KvsEngine on a mapping m: what a call may return, and the
\* mapping it leaves; any call may fail with an I/O error.
KvsEngineCall(m, req) ==
    {[result |-> ErrStdIo, map |-> m]} \cup
    (IF req.type = "Get"
     THEN {[result |-> ValueResult(m[req.key]), map |-> m]}
     ELSE IF req.type = "Set"
     THEN {[result |-> ResOk, map |-> [m EXCEPT ![req.key] = req.value]]}
     ELSE IF m[req.key] = 0
     THEN {[result |-> ErrKeyNotFound, map |-> m]}
     ELSE {[result |-> ResOk, map |-> [m EXCEPT ![req.key] = 0]]})

\* current_engine(cli_engine): the file is written when it does not
\* exist, and read otherwise.
CurrentEngine(file, e) ==
    IF file = "" THEN [file |-> e, engine |-> e]
    ELSE [file |-> file, engine |-> file]

\* Mutant of TagMatches: main does not compare.
TagMatchesAlways(a, b) == TRUE

\* main: current_engine(cli.engine)? != cli.engine
TagMatches(a, b) == a = b

NoRequest == [type |-> "none", key |-> 0, value |-> 0]
NewConn == [state |-> "new", client |-> "open", sent |-> <<>>, read |-> 0,
            output |-> <<>>]

\* A connection whose stream the server has dropped.
EndedConn == [NewConn EXCEPT !.state = "ended"]

\* The server process is not running.
Down(e, exit, starts) ==
    [pc |-> "down", engine |-> e, listener |-> FALSE, opened |-> "none",
     exit |-> exit, stream |-> 0, request |-> NoRequest, starts |-> starts]

ServerInit ==
    /\ engineFile = ""
    /\ srv = Down("none", "none", 0)
    /\ conns = [c \in Conns |-> NewConn]
    /\ store = [e \in Engines |-> [k \in {GetRequest.key} |-> 0]]
    /\ served = {}

\* main returns or the process is killed: the listener and every stream
\* of the process are closed.
ServerExit(exit) ==
    /\ srv' = Down(srv.engine, exit, srv.starts)
    /\ conns' = [c \in Conns |->
                    IF conns[c].state \in {"pending", "accepted"}
                    THEN EndedConn ELSE conns[c]]

\* main, started with --engine e: current_engine and the comparison.
Main(e) ==
    /\ srv.pc = "down"
    /\ srv.starts < MaxStarts
    /\ LET tag == CurrentEngine(engineFile, e)
       IN  /\ engineFile' = tag.file
           /\ srv' = IF TagMatches(tag.engine, e)
                     THEN [Down(e, "none", srv.starts + 1)
                               EXCEPT !.pc = "bind"]
                     ELSE Down(e, "UnmatchedEngine", srv.starts + 1)
    /\ UNCHANGED <<conns, store, served, engineVars, poolVars>>

\* main: TcpListener::bind(cli.addr)?
MainBind ==
    /\ srv.pc = "bind"
    /\ \E ok \in BOOLEAN :
          srv' = IF ok THEN [srv EXCEPT !.pc = "open", !.listener = TRUE]
                 ELSE Down(srv.engine, "StdIo", srv.starts)
    /\ UNCHANGED <<engineFile, conns, store, served, engineVars, poolVars>>

\* main: KvStore::open(current_dir()?)? or sled::open(current_dir()?)?
MainOpen ==
    /\ srv.pc = "open"
    /\ srv' = [srv EXCEPT !.pc = "accept", !.opened = srv.engine]
    /\ served' = served \cup {srv.engine}
    /\ UNCHANGED <<engineFile, conns, store, engineVars, poolVars>>

\* run_engine: listener.incoming() yields the stream of connection c.
RunEngineAccept(c) ==
    /\ srv.pc = "accept"
    /\ conns[c].state = "pending"
    /\ srv' = [srv EXCEPT !.pc = "request", !.stream = c]
    /\ conns' = [conns EXCEPT ![c].state = "accepted"]
    /\ UNCHANGED <<engineFile, store, served, engineVars, poolVars>>

\* process: req_iter.next(), and request?. It waits while the client has
\* sent nothing more and keeps its end open.
ProcessNext ==
    /\ srv.pc = "request"
    /\ LET c == srv.stream
           x == conns[c]
       IN  IF x.client = "reset"
           THEN ServerExit("StdIo")
           ELSE IF x.read < Len(x.sent)
           THEN IF x.sent[x.read + 1] = Malformed
                THEN ServerExit("SerdeJson")
                ELSE /\ srv' = [srv EXCEPT !.pc = "respond",
                                           !.request = x.sent[x.read + 1]]
                     /\ conns' = [conns EXCEPT ![c].read = @ + 1]
           ELSE /\ x.client = "eof"
                /\ srv' = [srv EXCEPT !.pc = "accept", !.stream = 0]
                /\ conns' = [conns EXCEPT ![c] = EndedConn]
    /\ UNCHANGED <<engineFile, store, served, engineVars, poolVars>>

\* process: the call of the engine, then serde_json::to_writer,
\* writer.write_all(&json)? and writer.flush()?
ProcessRespond ==
    /\ srv.pc = "respond"
    /\ \E o \in KvsEngineCall(store[srv.opened], srv.request) :
          /\ store' = [store EXCEPT ![srv.opened] = o.map]
          /\ IF conns[srv.stream].client = "reset"
             THEN ServerExit("StdIo")
             ELSE /\ srv' = [srv EXCEPT !.pc = "request",
                                        !.request = NoRequest]
                  /\ conns' = [conns EXCEPT ![srv.stream].output =
                                   Append(@, ResponseOf(o.result))]
    /\ UNCHANGED <<engineFile, served, engineVars, poolVars>>

\* The server process is stopped from outside.
ServerStop ==
    /\ srv.pc # "down"
    /\ ServerExit("stopped")
    /\ UNCHANGED <<engineFile, store, served, engineVars, poolVars>>

\* A client connects to the bound listener.
ClientConnect(c) ==
    /\ srv.listener
    /\ conns[c].state = "new"
    /\ conns' = [conns EXCEPT ![c].state = "pending"]
    /\ UNCHANGED <<engineFile, srv, store, served, engineVars, poolVars>>

\* The client writes one message on its connection.
ClientSend(c, m) ==
    /\ conns[c].state \in {"pending", "accepted"}
    /\ conns[c].client = "open"
    /\ Len(conns[c].sent) < MaxRequests
    /\ conns' = [conns EXCEPT ![c].sent = Append(@, m)]
    /\ UNCHANGED <<engineFile, srv, store, served, engineVars, poolVars>>

\* The client shuts down its sending side (how = "eof"), or its end of
\* the connection fails (how = "reset").
ClientEnd(c, how) ==
    /\ conns[c].state \in {"pending", "accepted"}
    /\ conns[c].client = "open"
    /\ conns' = [conns EXCEPT ![c].client = how]
    /\ UNCHANGED <<engineFile, srv, store, served, engineVars, poolVars>>

\* The steps of the server process once it is started.
Serve ==
    \/ MainBind
    \/ MainOpen
    \/ \E c \in Conns : RunEngineAccept(c)
    \/ ProcessNext
    \/ ProcessRespond

\* ------------------------------------------------------------ specifications
\* The engine is open on a fresh directory, the pool is constructed, and
\* the server has not been started in its directory.
Init == EngineInit /\ PoolInit /\ ServerInit

\* The steps of set and remove of thread t, compaction included.
Mutate(t) ==
    \/ \E k \in Keys, v \in Values : SetLock(t, k, v)
    \/ SetWrite(t)
    \/ SetFlush(t)
    \/ SetInsert(t)
    \/ \E k \in Keys : RemoveLock(t, k)
    \/ RemoveCheck(t)
    \/ RemoveWrite(t)
    \/ RemoveFlush(t)
    \/ RemoveErase(t)
    \/ CompactionBegin(t)
    \/ CompactionIter(t)
    \/ CompactionFlush(t)
    \/ \E g \in 0..MaxGeneration : CompactionDelete(t, g)
    \/ CompactionSwap(t)
    \/ Return(t)

\* The steps of get of thread t.
Read(t) ==
    \/ \E k \in Keys : GetLookup(t, k)
    \/ GetRead(t)

\* Threads call set, remove and get on clones of one open engine.
Next ==
    \/ \E t \in Threads : Mutate(t)
    \/ \E t \in Threads : Read(t)

Spec == Init /\ [][Next]_vars

\* One client calls set, remove and get; between calls the engine is
\* closed and the directory opened again.
NextReopen ==
    \/ Mutate(1)
    \/ Read(1)
    \/ Close
    \/ Open

SpecReopen == Init /\ [][NextReopen]_vars

\* One client mutates the store and the process may die at any step; what
\* the files hold then is decided by the writer's steps alone.
NextCrash ==
    \/ Mutate(1)
    \/ Crash
    \/ Close
    \/ Open

SpecCrash == Init /\ [][NextCrash]_vars

\* One client mutates the open store; a write to a file, and an open or
\* a write by compaction, may fail.
NextFault ==
    \/ Mutate(1)
    \/ WriteAllFails(1)
    \/ FlushFails(1)
    \/ CompactionFails(1)

SpecFault == Init /\ [][NextFault]_vars

\* Clients pass jobs to spawn and drop the pool; the threads of the pool
\* run run_job.
NextPool ==
    \/ \E kind \in {"return", "panic"} : PoolSpawn(kind)
    \/ PoolDrop
    \/ \E i \in WorkerIds : RunJob(i)

SpecPool == Init /\ [][NextPool]_vars

\* Every thread of the pool that can take a step eventually does: they
\* are operating-system threads.
FairPool ==
    SpecPool /\ \A i \in WorkerIds : WF_vars(RunJob(i))

\* The server is started and stopped in one directory, and clients
\* connect, send messages and end their connections.
NextServer ==
    \/ \E e \in Engines : Main(e)
    \/ Serve
    \/ ServerStop
    \/ \E c \in Conns : ClientConnect(c)
    \/ \E c \in Conns, m \in Messages : ClientSend(c, m)
    \/ \E c \in Conns, how \in {"eof", "reset"} : ClientEnd(c, how)

SpecServer == Init /\ [][NextServer]_vars

\* The server process, once started, is scheduled.
FairServer == SpecServer /\ WF_vars(Serve)

\* ------------------------------------------------------------------ claims
\* No set, remove or compaction is running on the open engine.
Quiescent == opened /\ lock = 0

WriterPcs ==
    {"set_write", "set_flush", "set_insert", "remove_check", "remove_write",
     "remove_flush", "remove_erase", "compaction", "compaction_iter",
     "compaction_delete", "return"}

RECURSIVE SumOver(_, _)
SumOver(f, S) ==
    IF S = {} THEN 0
    ELSE LET x == CHOOSE y \in S : TRUE IN f[x] + SumOver(f, S \ {x})

\* Bytes of all generation files of the directory.
TotalBytes == SumOver([g \in DOMAIN dir |-> BytesLen(dir[g])], DOMAIN dir)

\* Bytes of one Set command per key of the index.
LiveBytes ==
    SumOver([k \in DOMAIN kv |->
                SerializedLen(SetCommand(k, Found(kv, dir, k)))], DOMAIN kv)

C2_PersistenceAcrossReopen ==
    Quiescent /\ ~afterCrash =>
        \A k \in Keys : EngineGet(kv, dir, k) = ValueResult(acked[k])

\* C3: after a crash at any step and an open, get(k) returns for every
\* key the value of its last acknowledged mutation; the one mutation the
\* crash interrupted is resolved by open either way.
C3_CrashSafety ==
    Quiescent /\ afterCrash =>
        \A k \in Keys : EngineGet(kv, dir, k) = ValueResult(acked[k])

\* C4: in every state of an open engine, every index entry k -> (g, o)
\* finds in the flushed bytes of <g>.json, at byte o, a complete Set
\* command of key k.
C4_IndexResolvable ==
    opened =>
        \A k \in DOMAIN kv :
            /\ kv[k].generation \in DOMAIN dir
            /\ LET r == DecodeAt(dir[kv[k].generation], kv[k].offset)
               IN  /\ r.kind = "Command"
                   /\ r.command.type = "Set"
                   /\ r.command.key = k

\* C5: a get of a key that no running or concurrent mutation touches
\* returns None or the most recent value set for the key; it returns no
\* error and does not panic.
C5_ReadersNeverFail ==
    (ret.call.kind = "get" /\ Cardinality(ret.allowed) = 1) =>
        ret.result \in ret.allowed

\* C6: a get(k) returns the value acknowledged for k when the get began,
\* or the value of a mutation of k that ran while the get ran.
C6_AcknowledgedWritesVisible ==
    ret.call.kind = "get" => ret.result \in ret.allowed

C8_DiskUsageBounded ==
    Quiescent => TotalBytes <= 2 * LiveBytes + 3 * COMPACTION_THRESHOLD

\* C9: remove of a key that is not in the index returns KeyNotFound and
\* leaves the files, the index and the writer (offset, generation,
\* uncompacted bytes) as they were; no other call returns KeyNotFound.
C9_RemoveAbsentKey ==
    /\ [][\A t \in Threads :
            /\ (pc[t] = "remove_check" /\ pc'[t] # "remove_check"
                /\ op[t].key \notin DOMAIN kv)
               => (/\ ret'.thread = t
                   /\ ret'.result = ErrKeyNotFound
                   /\ UNCHANGED <<dir, kv, w>>)
            /\ (pc[t] = "idle" /\ pc'[t] = "remove_check")
               => UNCHANGED <<dir, kv, w>>]_vars
    /\ [](ret.result = ErrKeyNotFound => ret.call.kind = "remove")

\* C9 witness: a remove returned KeyNotFound for a key that is not in the
\* index, while the other key is in the index and the writer's file holds
\* flushed commands.
C9_Witness ==
    /\ ret.result = ErrKeyNotFound
    /\ DOMAIN kv = Keys \ {ret.call.key}
    /\ BytesLen(dir[w.writer_offset.generation]) > 0

\* C10: a thread inside set, remove or compaction holds the writer mutex,
\* so at most one thread is there; only that thread changes the files, the
\* index or the writer; and no step of a get changes the mutex.
C10_WriterMutualExclusion ==
    /\ [](\A t \in Threads : pc[t] \in WriterPcs => lock = t)
    /\ [][(opened /\ opened' /\ <<dir, kv, w, cmp>> # <<dir', kv', w', cmp'>>)
            => (/\ lock \in Threads
                /\ pc[lock] \in WriterPcs
                /\ \A t \in Threads \ {lock} : pc'[t] = pc[t])]_vars
    /\ [][((ret'.call.kind = "get" /\ ret' # ret)
            \/ \E t \in Threads : pc[t] # "get_read" /\ pc'[t] = "get_read")
            => lock' = lock]_vars

\* C10 witness: a get returned a value while another thread held the
\* mutex inside a compaction.
C10_Witness ==
    /\ ret.call.kind = "get"
    /\ ret.result.kind = "Some"
    /\ lock \in Threads
    /\ lock # ret.thread
    /\ pc[lock] = "compaction_delete"

\* Threads of the pool unwinding from a panic of their job.
Unwinding == {i \in DOMAIN workers : workers[i].state = "panicking"}

\* C11: the pool never has more than NumWorkers threads consuming from
\* the queue; while the pool is not dropped, the consuming threads and the
\* threads unwinding from a panic are NumWorkers together; the drop of a
\* panicking thread's QueueReceiver adds exactly one thread, which consumes
\* from the queue, and the drop at the normal end of run_job adds none; and
\* every unwinding thread is eventually replaced, so the count returns to
\* NumWorkers.
C11_WorkerCountKept ==
    /\ [](Cardinality(Consuming) <= NumWorkers)
    /\ [](sender => Cardinality(Consuming) + Cardinality(Unwinding)
                        = NumWorkers)
    /\ [][\A i \in DOMAIN workers :
            /\ (workers[i].state = "panicking"
                /\ workers'[i].state = "exited")
               => /\ Len(workers') = Len(workers) + 1
                  /\ workers'[Len(workers')] = Worker("next", 0)
                  /\ Cardinality(Consuming') = Cardinality(Consuming) + 1
            /\ (workers[i].state = "returned"
                /\ workers'[i].state = "exited")
               => Len(workers') = Len(workers)]_vars
    /\ \A i \in WorkerIds :
          (i \in Unwinding) ~> (sender => Cardinality(Consuming) = NumWorkers)

\* C11 witness: two jobs have panicked, both threads were replaced, and
\* the pool, not dropped, has NumWorkers threads consuming again.
C11_Witness ==
    /\ sender
    /\ Len(workers) = NumWorkers + 2
    /\ Cardinality({i \in DOMAIN workers : workers[i].state = "exited"}) = 2
    /\ Cardinality(Consuming) = NumWorkers

\* Job j is in sequence q.
InSeq(j, q) == \E n \in DOMAIN q : q[n] = j

\* C12: every job passed to spawn is eventually called, whether it was
\* passed before or after other jobs panicked; while the pool is not
\* dropped a receiver exists, so send cannot fail; and spawn is enabled
\* whatever the threads of the pool are doing, and puts its job on the
\* queue.
C12_EveryJobStarted ==
    /\ \A j \in 1..MaxJobs : (Len(jobs) >= j) ~> InSeq(j, begun)
    /\ [](sender => Alive # {})
    /\ []((sender /\ Len(jobs) < MaxJobs) => ENABLED PoolSpawn("return"))
    /\ [][Len(jobs') = Len(jobs) + 1
            => /\ queue' = Append(queue, Len(jobs'))
               /\ workers' = workers]_vars

\* C12 witness: the first two jobs panicked, and the third job is being
\* run by a thread that replaced a panicked one.
C12_Witness ==
    /\ Len(jobs) = 3
    /\ jobs[1] = "panic"
    /\ jobs[2] = "panic"
    /\ \E i \in DOMAIN workers :
          /\ i > NumWorkers
          /\ workers[i] = Worker("running", 3)
    /\ Cardinality({i \in DOMAIN workers : workers[i].state = "exited"}) = 2

\* Sequence q holds jobs in the order spawn enqueued them, none twice.
InEnqueueOrder(q) == \A m, n \in DOMAIN q : m < n => q[m] < q[n]

\* C13 as stated: the closures are called in the order in which spawn
\* enqueued their jobs.
C13_CalledInEnqueueOrder == InEnqueueOrder(begun)

\* C13: the jobs are received from the queue in exactly the order in
\* which spawn enqueued them, whether or not threads panicked and were
\* replaced; every job is received at most once and called at most once,
\* after it was received.
C13_ReceivedInEnqueueOrder ==
    /\ taken = [n \in 1..Len(taken) |-> n]
    /\ \A m, n \in DOMAIN begun : m # n => begun[m] # begun[n]
    /\ \A n \in DOMAIN begun : InSeq(begun[n], taken)
    /\ \A i \in DOMAIN workers :
          workers[i].state = "job"
              => InSeq(workers[i].job, taken) /\ ~InSeq(workers[i].job, begun)

\* C13 witness: three jobs were received in enqueue order, the second
\* was called before the first, and a thread that panicked was replaced.
C13_Witness ==
    /\ taken = <<1, 2, 3>>
    /\ Len(begun) = 3
    /\ begun[1] = 2
    /\ \E i \in DOMAIN workers : workers[i].state = "exited"

\* C14: once the pool is dropped, eventually no thread of the pool is
\* left, replacements of panicked threads included; when none is left the
\* queue is empty and every job that was passed to spawn has been called
\* and has ended; a thread leaves the loop of run_job only when the queue
\* is empty and the pool is dropped; and no thread is started after the
\* last one ended.
C14_Shutdown ==
    /\ (~sender) ~> (Alive = {})
    /\ []((~sender /\ Alive = {})
            => /\ queue = <<>>
               /\ \A j \in 1..Len(jobs) : InSeq(j, begun))
    /\ [][\A i \in DOMAIN workers :
            (workers[i].state # "returned" /\ workers'[i].state = "returned")
                => (queue = <<>> /\ ~sender)]_vars
    /\ [][Alive = {} => workers' = workers]_vars

\* C14 witness: the pool is dropped and no thread is left; three jobs were
\* run, the last one panicked and the thread running it was replaced.
C14_Witness ==
    /\ ~sender
    /\ Alive = {}
    /\ Len(begun) = MaxJobs
    /\ jobs[begun[MaxJobs]] = "panic"
    /\ Len(workers) > NumWorkers

\* A step that starts the server.
Startup == srv'.starts = srv.starts + 1

\* C15: the startup that finds no file `engine` writes the name of its
\* --engine flag to it; no step changes the file once it exists; a startup
\* whose flag differs from the name in the file ends with UnmatchedEngine,
\* with no listener bound and no engine opened, and one whose flag is that
\* name goes on to bind; so every engine ever opened in the directory is
\* the one named in the file.
C15_EngineTag ==
    /\ [][engineFile # "" => engineFile' = engineFile]_vars
    /\ [][(Startup /\ engineFile = "")
            => (engineFile' = srv'.engine /\ srv'.pc = "bind")]_vars
    /\ [][(Startup /\ engineFile # "")
            => IF srv'.engine = engineFile
               THEN srv'.pc = "bind"
               ELSE /\ srv'.exit = "UnmatchedEngine"
                    /\ srv'.pc = "down"
                    /\ ~srv'.listener
                    /\ srv'.opened = "none"
                    /\ served' = served]_vars
    /\ [](served \subseteq {engineFile})
    /\ [](srv.opened # "none" => srv.opened = engineFile)

\* C15 witness: the directory was served by kvs, and the third startup,
\* with --engine sled, ended with UnmatchedEngine.
C15_Witness ==
    /\ srv.starts = 3
    /\ served = {"kvs"}
    /\ engineFile = "kvs"
    /\ srv.engine = "sled"
    /\ srv.exit = "UnmatchedEngine"

\* C16: the server process leaves the handling of a connection only to
\* accept again, or because it is stopped from outside: a message that is
\* not a request, or a failed read or write on the stream, ends the
\* handling of that connection and leaves the listener bound and the server
\* accepting.
C16_ServerSurvivesConnectionErrors ==
    [][(srv.pc \in {"request", "respond"} /\ srv'.pc \notin {"request", "respond"})
        => \/ srv'.exit = "stopped"
           \/ srv'.pc = "accept" /\ srv'.listener]_vars

\* The responses the contract of the engine allows to request req on
\* mapping m: that of the call's outcome, or that of an I/O error.
ExpectedResponses(req, m) ==
    {Response(0, "StdIo")} \cup
    (IF req.type = "Get" THEN {Response(m[req.key], "")}
     ELSE IF req.type = "Rm" /\ m[req.key] = 0
     THEN {Response(0, "KeyNotFound")}
     ELSE {Response(0, "")})

\* C17: on a connection the server is handling, the responses written
\* are as many as the requests decoded, less the one being handled; each
\* response is appended while the n-th request sent is handled, as the
\* n-th response, and is what the engine's contract gives for that request
\* on the mapping at that moment (value and error null for a Get of a
\* missing key and for a successful Set or Rm; error set and value null for
\* an engine error, which changes nothing else); and after it the same
\* connection is read again.
C17_OneResponsePerRequest ==
    /\ [](\A c \in Conns :
            conns[c].state = "accepted"
                => Len(conns[c].output)
                     = conns[c].read
                         - (IF srv.stream = c /\ srv.pc = "respond"
                            THEN 1 ELSE 0))
    /\ [][\A c \in Conns :
            (conns'[c].state = "accepted"
             /\ conns'[c].output # conns[c].output)
                => /\ srv.pc = "respond"
                   /\ srv.stream = c
                   /\ srv.request = conns[c].sent[Len(conns[c].output) + 1]
                   /\ \E x \in ExpectedResponses(srv.request,
                                                 store[srv.opened]) :
                         /\ conns'[c].output = Append(conns[c].output, x)
                         /\ x.error # "" => (x.value = 0 /\ store' = store)
                   /\ srv'.pc = "request"
                   /\ srv'.stream = c
                   /\ \A d \in Conns \ {c} : conns'[d] = conns[d]]_vars

\* C17 witness: on one connection Rm of the absent key was answered with
\* the error, and the Get sent after it with value and error null.
C17_Witness ==
    \E c \in Conns :
        /\ conns[c].state = "accepted"
        /\ conns[c].sent = <<RmRequest, GetRequest>>
        /\ conns[c].output = <<Response(0, "KeyNotFound"), Response(0, "")>>

\* C18: a request sent on a connection that waits to be accepted is
\* eventually answered, unless the client ends the connection or the
\* server process ends first, also while the connection accepted before
\* stays open with nothing more sent on it.
C18_LaterConnectionAnswered ==
    \A c \in Conns :
        (/\ conns[c].state = "pending"
         /\ conns[c].client = "open"
         /\ conns[c].sent # <<>>
         /\ conns[c].sent[1] \in Requests)
            ~> (\/ conns[c].output # <<>>
                \/ conns[c].state = "ended"
                \/ conns[c].client # "open")

\* The records of key k in the files d: (generation, position in file).
RecordsOf(d, k) ==
    {p \in UNION {{g} \X DOMAIN d[g] : g \in DOMAIN d} :
        d[p[1]][p[2]].key = k}

\* Record p comes before record q in replay order.
Before(p, q) == p[1] < q[1] \/ (p[1] = q[1] /\ p[2] < q[2])

\* The last record of key k in replay order.
LastRecord(d, k) ==
    CHOOSE p \in RecordsOf(d, k) : \A q \in RecordsOf(d, k) \ {p} : Before(q, p)

\* C19: the index that open builds holds key k iff the files hold a
\* record of k and the last one, by ascending generation and then by
\* position in the file, is a Set; the entry of k is then the generation
\* and the first byte of that record.
C19_RecoveryReplay ==
    [][(~opened /\ opened')
        => \A k \in Keys :
              IF RecordsOf(dir, k) = {} THEN k \notin DOMAIN kv'
              ELSE LET p == LastRecord(dir, k)
                   IN  IF dir[p[1]][p[2]].type = "Set"
                       THEN /\ k \in DOMAIN kv'
                            /\ kv'[k] = CommandOffset(p[1],
                                   BytesLen(SubSeq(dir[p[1]], 1, p[2] - 1)))
                       ELSE k \notin DOMAIN kv']_vars

\* C19 witness: the engine was just opened; a key whose Set is in one
\* generation and whose Remove is in a later one is not in the index, and
\* another key's entry is not at the start of its file.
C19_Witness ==
    /\ opened
    /\ nCompactions = 0
    /\ w.writer_offset.generation > 0
    /\ w.writer_offset.generation \in DOMAIN dir
    /\ dir[w.writer_offset.generation] = <<>>
    /\ w.writer = <<>>
    /\ \E k \in Keys \ DOMAIN kv :
          \E p, q \in RecordsOf(dir, k) :
              /\ p[1] < q[1]
              /\ dir[p[1]][p[2]].type = "Set"
              /\ q = LastRecord(dir, k)
    /\ \E k \in DOMAIN kv : kv[k].offset > 0

\* C20: the step of set or remove that adds the record's length to the
\* counter goes on to compaction exactly when the counter is then at
\* least COMPACTION_THRESHOLD; the last step of a compaction leaves the
\* counter at 0 and the writer at offset 0 of the generation two above the
\* old one; and when set or remove returns Ok the counter is below
\* COMPACTION_THRESHOLD.
C20_CompactionTrigger ==
    /\ [][\A t \in Threads :
            (pc[t] \in {"set_insert", "remove_erase"} /\ pc'[t] # pc[t])
                => /\ w'.uncompaction_size
                        = w.uncompaction_size
                            + SerializedLen(IF op[t].kind = "set"
                                            THEN SetCommand(op[t].key,
                                                            op[t].value)
                                            ELSE RemoveCommand(op[t].key))
                   /\ pc'[t] = IF w'.uncompaction_size >= COMPACTION_THRESHOLD
                               THEN "compaction" ELSE "return"]_vars
    /\ [][\A t \in Threads :
            (pc[t] = "compaction_delete" /\ pc'[t] = "return")
                => /\ w'.uncompaction_size = 0
                   /\ w'.writer_offset
                        = CommandOffset(w.writer_offset.generation + 2, 0)
                   /\ cmp.compaction_generation
                        = w.writer_offset.generation + 1]_vars
    /\ [](\A t \in Threads :
            pc[t] = "return" => w.uncompaction_size < COMPACTION_THRESHOLD)
    /\ []((ret.result = ResOk /\ ret.call.kind \in {"set", "remove"})
            => w.uncompaction_size < COMPACTION_THRESHOLD)

\* C20 witness: a set goes on to compaction with a counter that was at
\* or above COMPACTION_THRESHOLD before its record was added: open had
\* seeded it so.
C20_Witness ==
    \E t \in Threads :
        /\ pc[t] = "compaction"
        /\ op[t].kind = "set"
        /\ w.uncompaction_size
             - SerializedLen(SetCommand(op[t].key, op[t].value))
               >= COMPACTION_THRESHOLD

\* C21: a generation file is deleted only by a compaction, and only if
\* an index entry was in that generation when the compaction began; it is
\* then below the compacted generation gc. When the compaction ends, the
\* files are those it found, less every generation that held an index
\* entry, plus <gc>.json and the new writer file <gc + 1>.json.
C21_CompactionDeletionSet ==
    /\ [][\A g \in DOMAIN dir \ DOMAIN dir' :
            /\ \E t \in Threads : pc[t] = "compaction_delete"
            /\ g \in cmp.sources
            /\ g < cmp.compaction_generation]_vars
    /\ [][\A t \in Threads :
            (pc[t] = "compaction_delete" /\ pc'[t] = "return")
                => /\ cmp.sources \subseteq cmp.files
                   /\ DOMAIN dir'
                        = (cmp.files \ cmp.sources)
                            \cup {cmp.compaction_generation,
                                  cmp.compaction_generation + 1}]_vars

\* C22: a get of any key returns after a completed compaction what it
\* returned before the compaction began; no step of a compaction adds a key
\* to the index or drops one from it; and when the compaction ends every
\* index entry is in generation gc.
C22_CompactionInvisible ==
    /\ [][\A t \in Threads :
            (pc[t] = "compaction_delete" /\ pc'[t] = "return")
                => /\ \A k \in Keys :
                        EngineGet(kv', dir', k) = cmp.mapping[k]
                   /\ \A k \in DOMAIN kv' :
                        kv'[k].generation = cmp.compaction_generation]_vars
    /\ [][\A t \in Threads :
            pc[t] \in {"compaction", "compaction_iter", "compaction_delete"}
                => DOMAIN kv' = DOMAIN kv]_vars

\* C23: the file a compaction creates as <gc>.json, the file it creates
\* as the new writer file and the writer file created at open do not exist
\* before they are created; and whenever no mutation is in progress no
\* generation file is above the writer generation.
C23_GenerationFreshness ==
    /\ [][\A t \in Threads :
            (pc[t] = "compaction" /\ pc'[t] = "compaction_iter")
                => w.writer_offset.generation + 1 \notin DOMAIN dir]_vars
    /\ [][\A t \in Threads :
            (pc[t] = "compaction_delete" /\ pc'[t] = "return")
                => cmp.compaction_generation + 1 \notin DOMAIN dir]_vars
    /\ [][(~opened /\ opened')
                => WriterGeneration(DOMAIN dir) \notin DOMAIN dir]_vars
    /\ [](Quiescent
            => \A g \in DOMAIN dir : g <= w.writer_offset.generation)

\* C24: when set or remove returns Ok, or Err from its write_all or its
\* flush, writer_offset.offset is the number of bytes the writer file and
\* the writer's buffer hold.
C24_WriterCursor ==
    [][\A t \in Threads :
          (/\ pc[t] \in {"return", "set_write", "set_flush",
                         "remove_write", "remove_flush"}
           /\ pc'[t] = "idle"
           /\ opened')
              => /\ w'.writer_offset.generation \in DOMAIN dir'
                 /\ w'.writer_offset.offset
                      = BytesLen(dir'[w'.writer_offset.generation])
                          + BytesLen(w'.writer)]_vars

====
